---------------------------- MODULE Spec2Model ----------------------------
(***************************************************************************)
(* tap-todoist: a Singer tap that sends one POST to the Todoist sync       *)
(* endpoint and hands the sub-collections of the response to the streams.  *)
(* The model follows src/tap_todoist/tap.py and base_connector.py.         *)
(***************************************************************************)
EXTENDS Integers, Sequences, FiniteSets, TLC

(* ------------------------------ bounds -------------------------------- *)
MaxCatalogLen == 2
MaxPreDiscover == 2
MaxCalls == 2
MaxPrepares == 1
MaxGetDataLen == 2
MaxReads == 2

(* --------------------------- Python values ---------------------------- *)
\* Optional[bool]: None is the empty set, a value is a singleton.
NoneB == {}
SomeB(b) == {b}

\* An optional object: kind "none" stands for None.
NoneObj == [kind |-> "none"]

(* ------------------------- the Schema Registry ------------------------ *)
\* The keys of SCHEMAS in definition order (a dict iterates in that order).
SchemaKeys ==
    <<"projects", "items", "sections", "labels", "notes", "filters", "reminders">>

\* The top-level properties each PropertiesList declares.
SchemaProperties(key) ==
    CASE key = "projects" ->
           <<"id", "name", "color", "parent_id", "child_order", "collapsed",
             "shared", "is_deleted", "is_archived", "is_favorite",
             "inbox_project", "team_inbox", "view_style">>
      [] key = "items" ->
           <<"id", "user_id", "project_id", "content", "description", "due",
             "priority", "parent_id", "child_order", "section_id", "day_order",
             "collapsed", "labels", "added_by_uid", "assigned_by_uid",
             "responsible_uid", "checked", "is_deleted", "completed_at",
             "added_at">>
      [] key = "sections" ->
           <<"id", "name", "project_id", "section_order", "collapsed",
             "is_deleted", "is_archived", "archived_at", "added_at">>
      [] key = "labels" ->
           <<"id", "name", "color", "item_order", "is_deleted", "is_favorite">>
      [] key = "notes" ->
           <<"id", "posted_uid", "item_id", "content", "file_attachment",
             "is_deleted", "posted_at", "reactions">>
      [] key = "filters" ->
           <<"id", "name", "query", "color", "item_order", "is_deleted",
             "is_favorite">>
      [] key = "reminders" ->
           <<"id", "notify_uid", "item_id", "type", "nm_offset", "loc_lat",
             "loc_long", "loc_trigger", "radius", "is_deleted">>
      [] OTHER -> <<>>

\* PropertiesList.to_dict(): the JSON schema of the property list.
to_dict(key) == [type |-> "object", properties |-> SchemaProperties(key)]

\* PropertiesList.to_schema(): Schema.from_dict(self.to_dict()).
to_schema(key) ==
    LET d == to_dict(key)
    IN  [class |-> "Schema", type |-> d.type, properties |-> d.properties]

REPLICATION_LOG_BASED == "LOG_BASED"

(* ----------------------------- metadata ------------------------------- *)
\* The root breadcrumb () of a MetadataMapping.
Root == "()"

\* MetadataMapping.get_standard_metadata as discover_catalog_entries calls
\* it, with a schema: a root StreamMetadata of inclusion "available" and one
\* Metadata per schema property, "automatic" for a key property.
get_standard_metadata(schema, replication_method, key_properties) ==
    LET props == {schema.properties[i] : i \in DOMAIN schema.properties}
        keys  == {key_properties[i] : i \in DOMAIN key_properties}
        root  == [inclusion |-> "available",
                  selected |-> NoneB,
                  selected_by_default |-> NoneB,
                  table_key_properties |-> key_properties,
                  forced_replication_method |-> replication_method]
    IN  [b \in props \cup {Root} |->
           IF b = Root THEN root
           ELSE [inclusion |-> IF b \in keys THEN "automatic" ELSE "available",
                 selected |-> NoneB,
                 selected_by_default |-> NoneB]]

\* entry.metadata.resolve_selection()[()]: whether the stream is selected.
\* The mask has the breadcrumbs of the mapping; it answers True for a root
\* breadcrumb it does not have.
resolve_selection(metadata) ==
    IF Root \notin DOMAIN metadata THEN TRUE
    ELSE LET md == metadata[Root]
         IN  IF md.inclusion = "unsupported" THEN FALSE
             ELSE IF md.inclusion = "automatic" THEN TRUE
             ELSE IF md.selected # NoneB THEN md.selected = SomeB(TRUE)
             ELSE IF md.selected_by_default # NoneB
                  THEN md.selected_by_default = SomeB(TRUE)
             ELSE FALSE

(* ------------------------------ catalog ------------------------------- *)
\* Catalog is a dict keyed by tap_stream_id, kept here as the sequence of its
\* values in insertion order; catalog.streams is that sequence.
EmptyCatalog == <<>>

CatalogIds(catalog) == [i \in DOMAIN catalog |-> catalog[i].tap_stream_id]

\* catalog[key] = entry: replaces the value of an existing key in place,
\* appends a new key at the end.
DictSetAppend(catalog, key, entry) == Append(catalog, entry)
DictSet(catalog, key, entry) ==
    IF \E i \in DOMAIN catalog : catalog[i].tap_stream_id = key
    THEN [i \in DOMAIN catalog |->
            IF catalog[i].tap_stream_id = key THEN entry ELSE catalog[i]]
    ELSE Append(catalog, entry)

\* TodoistClient.discover_catalog_entries: one CatalogEntry per SCHEMAS key.
CatalogEntryFor(key) ==
    [tap_stream_id |-> key,
     metadata |-> get_standard_metadata(to_dict(key), REPLICATION_LOG_BASED,
                                        <<"id">>),
     schema |-> to_schema(key),
     key_properties |-> <<"id">>]

discover_catalog_entries ==
    [i \in DOMAIN SchemaKeys |-> CatalogEntryFor(SchemaKeys[i])]

\* entry.metadata.root.selected = True
MarkUnchanged(entry) == entry
MarkSelected(entry) ==
    [entry EXCEPT !.metadata =
        [@ EXCEPT ![Root] = [@ EXCEPT !.selected = SomeB(TRUE)]]]

\* HTTPConnector.discover: the loop over the discovered entries.
RECURSIVE discover_loop(_, _)
discover_loop(catalog, entries) ==
    IF entries = <<>> THEN catalog
    ELSE LET entry == MarkSelected(Head(entries))
         IN  discover_loop(DictSet(catalog, entry.tap_stream_id, entry),
                           Tail(entries))

discover(catalog) == discover_loop(catalog, discover_catalog_entries)


(* ------------------------------ requests ------------------------------ *)
\* json.dumps of a list of strings: the text as a sequence of tokens.
RECURSIVE json_dumps_items(_)
json_dumps_items(list) ==
    IF list = <<>> THEN <<>>
    ELSE IF Len(list) = 1 THEN <<[t |-> "str", v |-> list[1]]>>
    ELSE <<[t |-> "str", v |-> Head(list)], [t |-> ",", v |-> ""]>>
           \o json_dumps_items(Tail(list))

json_dumps(list) ==
    <<[t |-> "[", v |-> ""]>> \o json_dumps_items(list) \o <<[t |-> "]", v |-> ""]>>

\* json.loads of such a text: the strings between the brackets, the
\* separators dropped; "invalid" when the text is no JSON array of strings.
RECURSIVE json_loads_items(_)
json_loads_items(toks) ==
    IF toks = <<>> THEN <<>>
    ELSE IF Head(toks).t = "str" THEN <<Head(toks).v>> \o json_loads_items(Tail(toks))
    ELSE json_loads_items(Tail(toks))

json_well_formed(toks) ==
    /\ Len(toks) >= 2
    /\ toks[1].t = "["
    /\ toks[Len(toks)].t = "]"
    /\ \A i \in 2..(Len(toks) - 1) :
         toks[i].t = (IF i % 2 = 0 THEN "str" ELSE ",")
    /\ (Len(toks) > 2 => toks[Len(toks) - 1].t = "str")

json_loads(toks) ==
    IF json_well_formed(toks)
    THEN [kind |-> "list", value |-> json_loads_items(SubSeq(toks, 2, Len(toks) - 1))]
    ELSE [kind |-> "invalid", value |-> <<>>]

\* TodoistClient.get_data: the ids of the selected entries, in catalog order.
RECURSIVE selected_streams(_)
selected_streams(streams) ==
    IF streams = <<>> THEN <<>>
    ELSE LET entry == Head(streams)
             mask  == resolve_selection(entry.metadata)
         IN  (IF mask THEN <<entry.tap_stream_id>> ELSE <<>>)
               \o selected_streams(Tail(streams))

get_data_all_streams(cfg, catalog, st) ==
    [sync_token |-> "*", resource_types |-> json_dumps(CatalogIds(catalog))]
get_data(cfg, catalog, st) ==
    [sync_token |-> "*", resource_types |-> json_dumps(selected_streams(catalog))]

\* TodoistClient.get_auth: BearerAuth(config["token"]); KeyError when the
\* key is missing.
get_auth_or_none(cfg) ==
    IF "token" \in DOMAIN cfg
    THEN [kind |-> "BearerAuth", token |-> cfg["token"]]
    ELSE [kind |-> "BearerAuth", token |-> "None"]
get_auth(cfg) ==
    IF "token" \in DOMAIN cfg
    THEN [kind |-> "BearerAuth", token |-> cfg["token"]]
    ELSE [kind |-> "KeyError", token |-> ""]

\* BearerAuth.__call__ on the headers of the outgoing request; a session
\* whose auth is None adds nothing.
ApplyAuth(auth, headers) ==
    IF auth.kind = "BearerAuth"
    THEN [headers EXCEPT !.Authorization = <<"Bearer", auth.token>>]
    ELSE headers

SyncUrl == "https://api.todoist.com/sync/v9/sync"

\* HTTPConnector.requests_session: a property under lru_cache, so every
\* access on one connector returns the one session, with the auth it was
\* given last; without the cache each access would build a new
\* requests.Session(), whose auth is None.
requests_session_uncached(session) == NoneObj
requests_session(session) == session

\* Response.raise_for_status: HTTPError for a 4xx or 5xx status.
raises_for_status_never(status) == FALSE
raises_for_status(status) == 400 <= status /\ status < 600

(* ------------------------- the server's answers ----------------------- *)
Record1 == [id |-> "1", name |-> "A"]
Record2 == [id |-> "2", name |-> "B"]
RecordLists == {<<>>, <<Record1, Record2>>}

\* The resource types whose presence and content vary among the responses.
ResourceNames == {"projects", "labels"}

\* The other resource types: a response holds all of them or none.
OtherNames == {SchemaKeys[i] : i \in DOMAIN SchemaKeys} \ ResourceNames

Statuses == {200, 304, 500}

\* The JSON objects a response body may decode to: any part of
\* ResourceNames, with the other types when it holds both of those, and
\* sync_token and full_sync, each there or not.
ResponseObjects ==
    UNION {
      {res @@ others @@ extra :
         res \in [P -> RecordLists],
         others \in {[n \in O |-> <<Record1>>] :
                       O \in IF P = ResourceNames THEN {{}, OtherNames} ELSE {{}}},
         extra \in { [k \in E |-> IF k = "sync_token" THEN "abc" ELSE TRUE] :
                       E \in SUBSET {"sync_token", "full_sync"} }}
      : P \in SUBSET ResourceNames }

Bodies ==
    {[kind |-> "malformed", value |-> <<>>], [kind |-> "array", value |-> <<>>]}
      \cup {[kind |-> "object", value |-> o] : o \in ResponseObjects}

NoResponse == [kind |-> "none", status |-> 0, body |-> [kind |-> "malformed", value |-> <<>>]]

Responses ==
    {[kind |-> "response", status |-> s, body |-> b] : s \in Statuses, b \in Bodies}

\* Response.json(): the decoded body; JSONDecodeError for a malformed one.
response_json(body) ==
    CASE body.kind = "object" -> [kind |-> "dict", value |-> body.value]
      [] body.kind = "array" -> [kind |-> "list", value |-> <<>>]
      [] OTHER -> [kind |-> "JSONDecodeError", value |-> <<>>]

\* obj[key] on the stored data: TypeError on None and on a list, KeyError on
\* a dict without the key.
subscript(obj, key) ==
    IF obj.kind = "dict"
    THEN IF key \in DOMAIN obj.value
         THEN [kind |-> "value", value |-> obj.value[key]]
         ELSE [kind |-> "KeyError", value |-> <<>>]
    ELSE [kind |-> "TypeError", value |-> <<>>]

\* SyncStream.get_records: self.connector.data[self.name].
get_records_or_empty(d, name) ==
    IF d.kind = "dict" /\ name \in DOMAIN d.value
    THEN [kind |-> "value", value |-> d.value[name]]
    ELSE [kind |-> "value", value |-> <<>>]
get_records(d, name) == subscript(d, name)


(* ------------------------------- inputs ------------------------------- *)
\* The tokens an operator may configure.
Tokens == {"secret", "other"}

\* The configurations: with a token, and without it (validate_config off).
Configs == {[k \in {"token"} |-> t] : t \in Tokens} \cup {[k \in {} |-> ""]}

\* The names an input catalog may list.
CatalogNames == {"projects", "labels", "notes"}

\* An entry of an input catalog: the discovered entry with the operator's
\* selection in its root metadata.
InputEntry(name, sel) ==
    [CatalogEntryFor(name) EXCEPT !.metadata =
        [@ EXCEPT ![Root] = [@ EXCEPT !.selected = SomeB(sel)]]]

\* The catalogs of n entries taken from a set of entries; a catalog is a
\* dict, so no two of its entries have the same id.
RECURSIVE CatalogsOfLen(_, _)
CatalogsOfLen(n, entries) ==
    IF n = 0 THEN {<<>>}
    ELSE UNION {
           {Append(c, e) :
              e \in {x \in entries :
                       \A i \in DOMAIN c : c[i].tap_stream_id # x.tap_stream_id}}
           : c \in CatalogsOfLen(n - 1, entries)}

InputEntries == {InputEntry(name, sel) : name \in CatalogNames, sel \in BOOLEAN}

\* The input catalogs: the empty one stands for "no input catalog".
InputCatalogs == UNION {CatalogsOfLen(n, InputEntries) : n \in 0..MaxCatalogLen}

(* ------------------------------- state -------------------------------- *)
VARIABLES
    config,          \* tap.config, also client.config
    tap_state,       \* tap.state
    input_catalog,   \* the tap's input catalog (empty: none given)
    client_catalog,  \* client.catalog
    data,            \* client._data
    session_auth,    \* client.requests_session.auth
    sent,            \* the requests the session has sent, in order
    response,        \* the response of the last request
    body,            \* the last value get_data returned
    pc,              \* the position in the running call
    caller,          \* who calls the client: TapTodoist.sync_all or a test
    error,           \* the exception that ended the run or the last call
    stream_idx,      \* the framework's position in its list of streams
    emitted,         \* the records the framework has written, in order
    last_read,       \* the last get_records call and its outcome
    events,          \* the steps taken so far, in order
    discover_calls,  \* how often discover has been called
    first_catalog,   \* client.catalog as the first discover left it
    prepare_status,  \* the outcome of the last prepare: never, running, ok, raised
    last_op,         \* the last call of the test harness
    calls            \* the number of calls of the test harness

vars == <<config, tap_state, input_catalog, client_catalog, data, session_auth,
          sent, response, body, pc, caller, error, stream_idx, emitted,
          last_read, events, discover_calls, first_catalog, prepare_status,
          last_op, calls>>

NoError == [kind |-> "none", at |-> "none"]
NoRead == [name |-> "none", kind |-> "none", value |-> <<>>]
NoBody == [sync_token |-> "", resource_types |-> <<>>]

\* TodoistClient.__init__ and HTTPConnector.__init__, then TapTodoist.__init__.
InitClient ==
    /\ client_catalog = EmptyCatalog
    /\ data = NoneObj
    /\ session_auth = NoneObj
    /\ sent = <<>>
    /\ response = NoResponse
    /\ body = NoBody
    /\ error = NoError
    /\ stream_idx = 1
    /\ emitted = <<>>
    /\ last_read = NoRead
    /\ events = <<>>
    /\ discover_calls = 0
    /\ first_catalog = EmptyCatalog
    /\ prepare_status = "never"
    /\ last_op = "none"
    /\ calls = 0

Init ==
    /\ InitClient
    /\ config \in Configs
    /\ tap_state = "empty"
    /\ input_catalog \in InputCatalogs
    /\ caller = "sync_all"
    /\ pc = "constructed"

\* self.catalog or self.client.catalog
TapCatalog == IF input_catalog # <<>> THEN input_catalog ELSE client_catalog


(* ------------------------- raising and returning ---------------------- *)
\* An exception leaves the running call: it ends the run of sync_all, which
\* catches nothing; a test harness catches it and goes on.
RaiseAndGoOn(kind, at) ==
    /\ error' = [kind |-> kind, at |-> at]
    /\ events' = Append(events, "raise")
    /\ pc' = IF caller = "sync_all" THEN "super_sync_all" ELSE "idle"
Raise(kind, at) ==
    /\ error' = [kind |-> kind, at |-> at]
    /\ events' = Append(events, "raise")
    /\ pc' = IF caller = "sync_all" THEN "failed" ELSE "idle"

RaiseInPrepare(kind, at) ==
    /\ Raise(kind, at)
    /\ prepare_status' = "raised"

(* ------------------------------ discover ------------------------------ *)
\* HTTPConnector.discover on the client.
DoDiscover(ev) ==
    /\ client_catalog' = discover(client_catalog)
    /\ discover_calls' = discover_calls + 1
    /\ first_catalog' = IF discover_calls = 0 THEN client_catalog' ELSE first_catalog
    /\ events' = Append(events, ev)

\* TapTodoist._singer_catalog, which the framework reads while it sets the
\* tap up (its catalog, its streams), before sync_all.
SingerCatalog ==
    /\ pc = "constructed"
    /\ discover_calls < MaxPreDiscover
    /\ DoDiscover("singer_catalog")
    /\ UNCHANGED <<config, tap_state, input_catalog, data, session_auth, sent,
                   response, body, pc, caller, error, stream_idx, emitted,
                   last_read, prepare_status, last_op, calls>>

\* sync_all: self.client.discover(self.config)
SyncAllNoDiscover ==
    /\ pc = "constructed"
    /\ pc' = "prepare"
    /\ UNCHANGED <<config, tap_state, input_catalog, client_catalog, data,
                   session_auth, sent, response, body, caller, error,
                   stream_idx, emitted, last_read, events, discover_calls,
                   first_catalog, prepare_status, last_op, calls>>
SyncAllDiscover ==
    /\ pc = "constructed"
    /\ DoDiscover("discover")
    /\ pc' = "prepare"
    /\ UNCHANGED <<config, tap_state, input_catalog, data, session_auth, sent,
                   response, body, caller, error, stream_idx, emitted,
                   last_read, prepare_status, last_op, calls>>

(* ------------------------------ prepare ------------------------------- *)
\* HTTPConnector.prepare -> prepare_session: session.auth = get_auth(...)
PrepareSession ==
    /\ pc = "prepare"
    /\ LET auth == get_auth(config)
       IN  IF auth.kind = "KeyError"
           THEN /\ RaiseInPrepare("KeyError", "prepare_session")
                /\ UNCHANGED session_auth
           ELSE /\ session_auth' = auth
                /\ pc' = "send_request"
                /\ events' = Append(events, "prepare_session")
                /\ prepare_status' = "running"
                /\ UNCHANGED error
    /\ UNCHANGED <<config, tap_state, input_catalog, client_catalog, data, sent,
                   response, body, caller, stream_idx, emitted, last_read,
                   discover_calls, first_catalog, last_op, calls>>

\* The request session.request builds and sends.
SyncRequest(payload) ==
    [method |-> "POST",
     url |-> SyncUrl,
     data |-> payload,
     headers |-> ApplyAuth(requests_session(session_auth),
                   [ContentType |-> "application/x-www-form-urlencoded",
                    Authorization |-> <<>>])]

\* TodoistClient.prepare: send_request("POST", ..., data=get_data(...)); the
\* server answers with any response, or the connection fails.
SendRequest ==
    /\ pc = "send_request"
    /\ body' = get_data(config, TapCatalog, tap_state)
    /\ sent' = Append(sent, SyncRequest(body'))
    /\ \E r \in Responses \cup {NoResponse} :
         /\ response' = r
         /\ IF r.kind = "none"
            THEN /\ error' = [kind |-> "ConnectionError", at |-> "send_request"]
                 /\ events' = events \o <<"post", "raise">>
                 /\ pc' = IF caller = "sync_all" THEN "failed" ELSE "idle"
                 /\ prepare_status' = "raised"
            ELSE /\ events' = Append(events, "post")
                 /\ pc' = "raise_for_status"
                 /\ UNCHANGED <<error, prepare_status>>
    /\ UNCHANGED <<config, tap_state, input_catalog, client_catalog, data,
                   session_auth, caller, stream_idx, emitted, last_read,
                   discover_calls, first_catalog, last_op, calls>>

\* response.raise_for_status()
RaiseForStatusRetry ==
    /\ pc = "raise_for_status"
    /\ IF raises_for_status(response.status)
       THEN IF Len(sent) < 2
            THEN /\ pc' = "send_request"
                 /\ UNCHANGED <<error, events, prepare_status>>
            ELSE RaiseInPrepare("HTTPError", "raise_for_status")
       ELSE /\ pc' = "json"
            /\ UNCHANGED <<error, events, prepare_status>>
    /\ UNCHANGED <<config, tap_state, input_catalog, client_catalog, data,
                   session_auth, sent, response, body, caller, stream_idx,
                   emitted, last_read, discover_calls, first_catalog, last_op,
                   calls>>
RaiseForStatus ==
    /\ pc = "raise_for_status"
    /\ IF raises_for_status(response.status)
       THEN RaiseInPrepare("HTTPError", "raise_for_status")
       ELSE /\ pc' = "json"
            /\ UNCHANGED <<error, events, prepare_status>>
    /\ UNCHANGED <<config, tap_state, input_catalog, client_catalog, data,
                   session_auth, sent, response, body, caller, stream_idx,
                   emitted, last_read, discover_calls, first_catalog, last_op,
                   calls>>

\* self._data = response.json()
StoreData ==
    /\ pc = "json"
    /\ LET parsed == response_json(response.body)
       IN  IF parsed.kind = "JSONDecodeError"
           THEN /\ RaiseInPrepare("JSONDecodeError", "json")
                /\ UNCHANGED data
           ELSE /\ data' = parsed
                /\ pc' = "log"
                /\ events' = Append(events, "stored")
                /\ UNCHANGED <<error, prepare_status>>
    /\ UNCHANGED <<config, tap_state, input_catalog, client_catalog,
                   session_auth, sent, response, body, caller, stream_idx,
                   emitted, last_read, discover_calls, first_catalog, last_op,
                   calls>>

\* logging.info(..., self._data["full_sync"]); logging.info(...,
\* self._data["sync_token"]); then prepare returns.
LogSync ==
    /\ pc = "log"
    /\ LET full == subscript(data, "full_sync")
           tok  == subscript(data, "sync_token")
       IN  IF full.kind # "value"
           THEN RaiseInPrepare(full.kind, "log")
           ELSE IF tok.kind # "value"
           THEN RaiseInPrepare(tok.kind, "log")
           ELSE /\ pc' = IF caller = "sync_all" THEN "super_sync_all" ELSE "idle"
                /\ events' = Append(events, "prepared")
                /\ prepare_status' = "ok"
                /\ error' = NoError
    /\ UNCHANGED <<config, tap_state, input_catalog, client_catalog, data,
                   session_auth, sent, response, body, caller, stream_idx,
                   emitted, last_read, discover_calls, first_catalog, last_op,
                   calls>>


(* ---------------------- the framework's sync-all ---------------------- *)
\* The (stream, record) pairs written for one stream.
RecordsOf(name, records) == [i \in DOMAIN records |-> <<name, records[i]>>]

\* return super().sync_all(): the framework takes the tap's streams in
\* catalog order, skips an unselected one, and writes the records that
\* get_records returns; an exception of get_records ends the run.
SyncStreamIsolated ==
    /\ pc = "super_sync_all"
    /\ stream_idx <= Len(TapCatalog)
    /\ LET entry == TapCatalog[stream_idx]
           got   == get_records(data, entry.tap_stream_id)
       IN  IF ~resolve_selection(entry.metadata)
           THEN UNCHANGED <<events, emitted, last_read>>
           ELSE /\ last_read' = [name |-> entry.tap_stream_id, kind |-> got.kind,
                                 value |-> got.value]
                /\ events' = Append(events, "read")
                /\ emitted' = IF got.kind = "value"
                              THEN emitted \o RecordsOf(entry.tap_stream_id, got.value)
                              ELSE emitted
    /\ stream_idx' = stream_idx + 1
    /\ UNCHANGED <<config, tap_state, input_catalog, client_catalog, data,
                   session_auth, sent, response, body, pc, caller, error,
                   discover_calls, first_catalog, prepare_status, last_op, calls>>
SyncStream ==
    /\ pc = "super_sync_all"
    /\ stream_idx <= Len(TapCatalog)
    /\ LET entry == TapCatalog[stream_idx]
           got   == get_records(data, entry.tap_stream_id)
       IN  IF ~resolve_selection(entry.metadata)
           THEN /\ stream_idx' = stream_idx + 1
                /\ UNCHANGED <<pc, error, events, emitted, last_read>>
           ELSE /\ last_read' = [name |-> entry.tap_stream_id, kind |-> got.kind,
                                 value |-> got.value]
                /\ IF got.kind = "value"
                   THEN /\ emitted' = emitted \o RecordsOf(entry.tap_stream_id, got.value)
                        /\ stream_idx' = stream_idx + 1
                        /\ events' = Append(events, "read")
                        /\ UNCHANGED <<pc, error>>
                   ELSE /\ error' = [kind |-> got.kind, at |-> "get_records"]
                        /\ events' = events \o <<"read", "raise">>
                        /\ pc' = "failed"
                        /\ UNCHANGED <<emitted, stream_idx>>
    /\ UNCHANGED <<config, tap_state, input_catalog, client_catalog, data,
                   session_auth, sent, response, body, caller, discover_calls,
                   first_catalog, prepare_status, last_op, calls>>

\* The framework has gone through every stream: sync_all returns.
FinishSync ==
    /\ pc = "super_sync_all"
    /\ stream_idx > Len(TapCatalog)
    /\ pc' = "done"
    /\ events' = Append(events, "done")
    /\ UNCHANGED <<config, tap_state, input_catalog, client_catalog, data,
                   session_auth, sent, response, body, caller, error,
                   stream_idx, emitted, last_read, discover_calls,
                   first_catalog, prepare_status, last_op, calls>>

\* One run of TapTodoist.sync_all on a constructed tap.
Next ==
    \/ SingerCatalog
    \/ SyncAllDiscover
    \/ PrepareSession
    \/ SendRequest
    \/ RaiseForStatus
    \/ StoreData
    \/ LogSync
    \/ SyncStream
    \/ FinishSync

Spec == Init /\ [][Next]_vars

(* ------------------- the client called by a test ---------------------- *)
\* A test holds a client and calls discover, prepare and a stream's
\* get_records in any order, catching what they raise.
ApiCatalogs == CatalogsOfLen(0, InputEntries) \cup CatalogsOfLen(1, InputEntries)

\* The test's configurations: one with a token and one without.
ApiConfigs == {c \in Configs : "token" \in DOMAIN c => c["token"] = "secret"}

ApiInit ==
    /\ InitClient
    /\ config \in ApiConfigs
    /\ tap_state = "empty"
    /\ input_catalog \in ApiCatalogs
    /\ caller = "harness"
    /\ pc = "idle"

ApiDiscover ==
    /\ pc = "idle"
    /\ calls < MaxCalls
    /\ DoDiscover("discover")
    /\ last_op' = "discover"
    /\ calls' = calls + 1
    /\ UNCHANGED <<config, tap_state, input_catalog, data, session_auth, sent,
                   response, body, pc, caller, error, stream_idx, emitted,
                   last_read, prepare_status>>

ApiPrepare ==
    /\ pc = "idle"
    /\ calls < MaxCalls
    /\ Len(sent) < MaxPrepares
    /\ pc' = "prepare"
    /\ prepare_status' = "running"
    /\ last_op' = "prepare"
    /\ calls' = calls + 1
    /\ UNCHANGED <<config, tap_state, input_catalog, client_catalog, data,
                   session_auth, sent, response, body, caller, error,
                   stream_idx, emitted, last_read, events, discover_calls,
                   first_catalog>>

ApiGetRecords ==
    /\ pc = "idle"
    /\ calls < MaxCalls
    /\ \E name \in CatalogNames :
         LET got == get_records(data, name)
         IN  /\ last_read' = [name |-> name, kind |-> got.kind, value |-> got.value]
             /\ error' = IF got.kind = "value" THEN NoError
                         ELSE [kind |-> got.kind, at |-> "get_records"]
    /\ events' = Append(events, "read")
    /\ last_op' = "get_records"
    /\ calls' = calls + 1
    /\ UNCHANGED <<config, tap_state, input_catalog, client_catalog, data,
                   session_auth, sent, response, body, pc, caller, stream_idx,
                   emitted, discover_calls, first_catalog, prepare_status>>

ApiNext ==
    \/ ApiDiscover
    \/ ApiPrepare
    \/ ApiGetRecords
    \/ PrepareSession
    \/ SendRequest
    \/ RaiseForStatus
    \/ StoreData
    \/ LogSync

ApiSpec == ApiInit /\ [][ApiNext]_vars


(* ---------------------- get_data as a function ------------------------ *)
\* The root metadata an operator's catalog may carry for a stream: one for
\* every way resolve_selection decides.
RootMetadata(inc, sel, sbd) ==
    [inclusion |-> inc, selected |-> sel, selected_by_default |-> sbd,
     table_key_properties |-> <<"id">>,
     forced_replication_method |-> REPLICATION_LOG_BASED]

RootChoices ==
    {RootMetadata("unsupported", SomeB(TRUE), NoneB),
     RootMetadata("automatic", SomeB(FALSE), NoneB),
     RootMetadata("available", SomeB(TRUE), SomeB(FALSE)),
     RootMetadata("available", SomeB(FALSE), SomeB(TRUE)),
     RootMetadata("available", NoneB, SomeB(TRUE)),
     RootMetadata("available", NoneB, SomeB(FALSE)),
     RootMetadata("available", NoneB, NoneB)}

\* The metadata mappings: with a root, empty, and with no root entry.
MetadataChoices ==
    {[b \in {Root} |-> r] : r \in RootChoices}
      \cup {[b \in {} |-> 0]}
      \cup {[b \in {"id"} |-> [inclusion |-> "automatic", selected |-> NoneB,
                               selected_by_default |-> NoneB]]}

AnyEntries ==
    {[tap_stream_id |-> name, metadata |-> md, schema |-> to_schema(name),
      key_properties |-> <<"id">>] :
       name \in CatalogNames, md \in MetadataChoices}

AnyCatalogs == UNION {CatalogsOfLen(n, AnyEntries) : n \in 0..MaxGetDataLen}

GetDataInit ==
    /\ InitClient
    /\ config \in Configs
    /\ tap_state \in {"empty", "bookmarks"}
    /\ input_catalog \in AnyCatalogs
    /\ caller = "harness"
    /\ pc = "get_data"

\* A call of client.get_data(config, catalog, state).
CallGetData ==
    /\ pc = "get_data"
    /\ body' = get_data(config, input_catalog, tap_state)
    /\ pc' = "returned"
    /\ UNCHANGED <<config, tap_state, input_catalog, client_catalog, data,
                   session_auth, sent, response, caller, error, stream_idx,
                   emitted, last_read, events, discover_calls, first_catalog,
                   prepare_status, last_op, calls>>

GetDataNext == CallGetData

GetDataSpec == GetDataInit /\ [][GetDataNext]_vars


(* ------------------- reads after the one fetch ------------------------ *)
\* A test holds a client, calls prepare once and reads the streams, any of
\* them, in any order, before and after the fetch.
ReadInit ==
    /\ InitClient
    /\ config \in Configs
    /\ tap_state = "empty"
    /\ input_catalog \in ApiCatalogs
    /\ caller = "harness"
    /\ pc = "idle"

\* The one call of client.prepare(config, catalog, state).
FetchOnce ==
    /\ pc = "idle"
    /\ prepare_status = "never"
    /\ pc' = "prepare"
    /\ prepare_status' = "running"
    /\ last_op' = "prepare"
    /\ UNCHANGED <<config, tap_state, input_catalog, client_catalog, data,
                   session_auth, sent, response, body, caller, error,
                   stream_idx, emitted, last_read, events, discover_calls,
                   first_catalog, calls>>

ReadsSoFar == Cardinality({i \in DOMAIN events : events[i] = "read"})

\* A call of get_records on the stream of some name: it returns
\* self.connector.data[self.name] and assigns nothing.
ReadRecordsPop ==
    /\ pc = "idle"
    /\ ReadsSoFar < MaxReads
    /\ \E name \in CatalogNames :
         LET got == get_records(data, name)
         IN  /\ last_read' = [name |-> name, kind |-> got.kind, value |-> got.value]
             /\ error' = IF got.kind = "value" THEN NoError
                         ELSE [kind |-> got.kind, at |-> "get_records"]
             /\ data' = IF got.kind = "value"
                        THEN [data EXCEPT !.value =
                                [k \in DOMAIN data.value \ {name} |-> data.value[k]]]
                        ELSE data
    /\ events' = Append(events, "read")
    /\ last_op' = "get_records"
    /\ UNCHANGED <<config, tap_state, input_catalog, client_catalog,
                   session_auth, sent, response, body, pc, caller, stream_idx,
                   emitted, discover_calls, first_catalog, prepare_status, calls>>
ReadRecords ==
    /\ pc = "idle"
    /\ ReadsSoFar < MaxReads
    /\ \E name \in CatalogNames :
         LET got == get_records(data, name)
         IN  /\ last_read' = [name |-> name, kind |-> got.kind, value |-> got.value]
             /\ error' = IF got.kind = "value" THEN NoError
                         ELSE [kind |-> got.kind, at |-> "get_records"]
    /\ events' = Append(events, "read")
    /\ last_op' = "get_records"
    /\ UNCHANGED <<config, tap_state, input_catalog, client_catalog, data,
                   session_auth, sent, response, body, pc, caller, stream_idx,
                   emitted, discover_calls, first_catalog, prepare_status, calls>>

ReadNext ==
    \/ FetchOnce
    \/ ReadRecords
    \/ PrepareSession
    \/ SendRequest
    \/ RaiseForStatus
    \/ StoreData
    \/ LogSync

ReadSpec == ReadInit /\ [][ReadNext]_vars

(* ============================== claims ================================ *)
Positions(ev) == {i \in DOMAIN events : events[i] = ev}
Happened(ev) == Positions(ev) # {}
Before(a, b) == \A j \in Positions(b) : \E i \in Positions(a) : i < j

\* The step of the run an event belongs to: discovery, the fetch, the
\* emission, the end.
Rank(ev) ==
    CASE ev = "singer_catalog" -> 0
      [] ev = "discover" -> 1
      [] ev \in {"prepare_session", "post", "stored", "prepared"} -> 2
      [] ev = "read" -> 3
      [] ev = "done" -> 4
      [] OTHER -> 5

PrepareSteps == {"prepare_session", "send_request", "raise_for_status", "json", "log"}

\* The ids of the selected entries of a catalog.
SelectedIds(catalog) ==
    {catalog[i].tap_stream_id :
       i \in {j \in DOMAIN catalog : resolve_selection(catalog[j].metadata)}}

C2_OneRequest ==
    /\ Len(sent) <= 1
    /\ Len(sent) = Cardinality(Positions("post"))
    /\ pc = "done" => Len(sent) = 1
    /\ error.kind = "HTTPError" => Len(sent) = 1
    /\ \A i \in DOMAIN sent : sent[i].method = "POST" /\ sent[i].url = SyncUrl
    /\ ~Happened("post") => sent = <<>>

C2_Witness ==
    /\ pc = "failed"
    /\ error.kind = "HTTPError"
    /\ response.status = 500
    /\ Len(sent) = 1

\* The ids of the selected entries in catalog order, stated by position: the
\* k-th of them is the id of the k-th selected entry.
IsSelectedInOrder(list, catalog) ==
    LET sel == {i \in DOMAIN catalog : resolve_selection(catalog[i].metadata)}
    IN  /\ Len(list) = Cardinality(sel)
        /\ \A i \in sel :
             list[Cardinality({j \in sel : j <= i})] = catalog[i].tap_stream_id

\* C3: for every catalog, config and state, get_data returns a body whose
\* sync_token is "*" and whose resource_types JSON-decodes to the ids of
\* the selected entries of the catalog, in catalog order, no more, no less.
C3_BodyIsSelection ==
    pc = "returned" =>
       /\ body.sync_token = "*"
       /\ LET decoded == json_loads(body.resource_types)
          IN  /\ decoded.kind = "list"
              /\ IsSelectedInOrder(decoded.value, input_catalog)

C3_Witness ==
    /\ pc = "returned"
    /\ Len(input_catalog) = 2
    /\ ~resolve_selection(input_catalog[1].metadata)
    /\ resolve_selection(input_catalog[2].metadata)
    /\ json_loads(body.resource_types).value = <<input_catalog[2].tap_stream_id>>


\* The last prepare has ended and its request was answered with a response.
PrepareEndedWithResponse ==
    /\ pc = "idle"
    /\ prepare_status \in {"ok", "raised"}
    /\ response.kind = "response"

\* What C4 says of a prepare that has ended: it raised and stored nothing,
\* and a get_records call after it fails.
FetchRaisedAndNothingRetrievable ==
    /\ prepare_status = "raised"
    /\ ~Happened("stored") =>
         /\ data = NoneObj
         /\ last_op = "get_records" => last_read.kind \in {"TypeError", "KeyError"}

\* C4 as stated: after a response with any status outside 200..299 prepare
\* has raised (whatever the exception), the stored response is unset and
\* every get_records call fails.
C4_AnyNon2xxRaises ==
    (PrepareEndedWithResponse /\ ~(200 <= response.status /\ response.status < 300))
       => FetchRaisedAndNothingRetrievable

\* C4 amended: after a response with a 4xx or 5xx status (such as 500)
\* prepare has raised the HTTP error, a stored response that was unset stays
\* unset, and every later get_records call for any stream name fails.
C4_ErrorStatusRaises ==
    (PrepareEndedWithResponse /\ 400 <= response.status /\ response.status < 600)
       => /\ FetchRaisedAndNothingRetrievable
          /\ last_op = "prepare" =>
                error = [kind |-> "HTTPError", at |-> "raise_for_status"]

C4_Witness ==
    /\ PrepareEndedWithResponse
    /\ response.status = 500
    /\ response.body.kind = "object"
    /\ "projects" \in DOMAIN response.body.value
    /\ last_op = "get_records"
    /\ last_read.name = "projects"
    /\ last_read.kind = "TypeError"

\* C5: with a config that has no token, prepare fails in get_auth, before
\* send_request: no request is sent, no response is received or stored; and
\* in every run the session's auth is set before the request is sent.
C5_MissingTokenNoRequest ==
    /\ Before("prepare_session", "post")
    /\ \A i \in DOMAIN sent :
         /\ "token" \in DOMAIN config
         /\ session_auth = [kind |-> "BearerAuth", token |-> config["token"]]
         /\ sent[i].headers.Authorization = <<"Bearer", config["token"]>>
    /\ "token" \notin DOMAIN config =>
         /\ sent = <<>>
         /\ response = NoResponse
         /\ data = NoneObj
         /\ session_auth = NoneObj
         /\ pc \in {"constructed", "prepare", "failed"}
         /\ pc = "failed" => error = [kind |-> "KeyError", at |-> "prepare_session"]

C5_Witness ==
    /\ "token" \notin DOMAIN config
    /\ pc = "failed"
    /\ error = [kind |-> "KeyError", at |-> "prepare_session"]
    /\ sent = <<>>

\* C6: a get_records call after a successful fetch returns the sub-collection
\* the response holds under the stream's name, the same records in the same
\* order; it raises when no fetch has stored a response and when the name is
\* not in the response, and returns no collection, empty or partial, then.
C6_ReadIsStoredOrFails ==
    last_op = "get_records" =>
       /\ prepare_status = "never" => last_read.kind = "TypeError"
       /\ data = NoneObj => last_read.kind = "TypeError"
       /\ prepare_status = "ok" =>
            /\ response.body.kind = "object"
            /\ IF last_read.name \in DOMAIN response.body.value
               THEN /\ last_read.kind = "value"
                    /\ last_read.value = response.body.value[last_read.name]
               ELSE last_read.kind = "KeyError"
       /\ last_read.kind # "value" => last_read.value = <<>> /\ error.at = "get_records"

C6_Witness ==
    /\ last_op = "get_records"
    /\ prepare_status = "ok"
    /\ last_read.kind = "value"
    /\ last_read.value = <<Record1, Record2>>
    /\ "labels" \notin DOMAIN response.body.value


\* The records written for a stream, in the order written.
RECURSIVE EmittedOf(_, _)
EmittedOf(name, out) ==
    IF out = <<>> THEN <<>>
    ELSE (IF Head(out)[1] = name THEN <<Head(out)[2]>> ELSE <<>>)
           \o EmittedOf(name, Tail(out))

\* The position of a stream in the tap's catalog (0: not in it).
IndexOfStream(name) ==
    IF \E i \in DOMAIN TapCatalog : TapCatalog[i].tap_stream_id = name
    THEN CHOOSE i \in DOMAIN TapCatalog : TapCatalog[i].tap_stream_id = name
    ELSE 0

\* C7 as stated: once prepare has returned, every stream name sent in
\* resource_types is in the stored response, and no read of a selected
\* stream fails after records of another stream were written.
C7_FetchHoldsEverySelected ==
    /\ prepare_status = "ok" =>
         \A name \in SelectedIds(TapCatalog) : name \in DOMAIN data.value
    /\ error.at = "get_records" => emitted = <<>>

\* C7 amended: there is no per-stream failure isolation. prepare stores the
\* one response as it came, without comparing it with the selection. A run
\* that ends Done has written, for every selected stream, the records the
\* response holds under its name, and nothing else. A selected stream that
\* the response lacks makes its read raise; that ends the run: what was
\* written before stays written (whole streams only, those before the failing
\* one), and no later stream is read.
C7_NoFailureIsolation ==
    /\ prepare_status = "ok" => data = [kind |-> "dict", value |-> response.body.value]
    /\ pc = "done" =>
         /\ error = NoError
         /\ \A name \in SelectedIds(TapCatalog) :
              /\ name \in DOMAIN data.value
              /\ EmittedOf(name, emitted) = data.value[name]
         /\ \A k \in DOMAIN emitted : emitted[k][1] \in SelectedIds(TapCatalog)
    /\ error.at = "get_records" =>
         /\ pc = "failed"
         /\ last_read.name = TapCatalog[stream_idx].tap_stream_id
         /\ last_read.name \notin DOMAIN data.value
         /\ \A k \in DOMAIN emitted :
              /\ IndexOfStream(emitted[k][1]) < stream_idx
              /\ emitted[k][1] \in DOMAIN data.value
         /\ \A i \in 1..(stream_idx - 1) :
              resolve_selection(TapCatalog[i].metadata) =>
                 EmittedOf(TapCatalog[i].tap_stream_id, emitted)
                    = data.value[TapCatalog[i].tap_stream_id]

C7_Witness ==
    /\ pc = "failed"
    /\ error = [kind |-> "KeyError", at |-> "get_records"]
    /\ prepare_status = "ok"
    /\ stream_idx = 2
    /\ Len(emitted) = 2

\* C8: a failure of discover or prepare ends the run of sync_all: the
\* framework's sync-all is not entered, no get_records call is made, no
\* record is written, and nothing follows the exception.
C8_FailureHalts ==
    /\ \A i \in Positions("raise") : i = Len(events)
    /\ Happened("raise") <=> error # NoError
    /\ error # NoError => pc = "failed"
    /\ error.at \in PrepareSteps \cup {"discover"} =>
         /\ ~Happened("read")
         /\ ~Happened("prepared")
         /\ ~Happened("done")
         /\ emitted = <<>>
         /\ last_read = NoRead
         /\ stream_idx = 1
         /\ prepare_status = "raised"

C8_Witness ==
    /\ pc = "failed"
    /\ error = [kind |-> "KeyError", at |-> "log"]
    /\ data.kind = "dict"
    /\ "projects" \in DOMAIN data.value
    /\ "projects" \in SelectedIds(TapCatalog)


\* The names of the Schema Registry.
SevenNames ==
    {"projects", "items", "sections", "labels", "notes", "filters", "reminders"}

\* C9: once discover has run, the client's catalog holds one entry for each
\* of the seven names of the Schema Registry and no other; each entry has
\* its stream id, the schema of that stream (with an id field), the key
\* field id, the log-based replication marker, and is marked selected.
C9_DiscoverYieldsRegistry ==
    discover_calls > 0 =>
       /\ Len(client_catalog) = 7
       /\ {client_catalog[i].tap_stream_id : i \in DOMAIN client_catalog} = SevenNames
       /\ CatalogIds(client_catalog) = SchemaKeys
       /\ \A i \in DOMAIN client_catalog :
            LET entry == client_catalog[i]
                root  == entry.metadata[Root]
            IN  /\ entry.schema.properties = SchemaProperties(entry.tap_stream_id)
                /\ entry.schema.properties # <<>>
                /\ \E k \in DOMAIN entry.schema.properties :
                      entry.schema.properties[k] = "id"
                /\ entry.key_properties = <<"id">>
                /\ root.table_key_properties = <<"id">>
                /\ root.forced_replication_method = "LOG_BASED"
                /\ root.selected = SomeB(TRUE)
                /\ resolve_selection(entry.metadata)

C9_Witness ==
    /\ discover_calls = 1
    /\ Len(client_catalog) = 7
    /\ client_catalog[7].tap_stream_id = "reminders"
    /\ client_catalog[7].metadata[Root].selected = SomeB(TRUE)

\* C10: a second discover on the same client leaves the client's catalog as
\* the first one left it: the same names in the same order, the same
\* schemas, key fields and selection, no entry added, removed or doubled;
\* so too when the first call came while the tap was set up and the second
\* inside sync_all.
C10_DiscoverIdempotent ==
    /\ discover_calls >= 1 => client_catalog = first_catalog
    /\ \A i, j \in DOMAIN client_catalog :
         client_catalog[i].tap_stream_id = client_catalog[j].tap_stream_id => i = j

C10_Witness ==
    /\ discover_calls = 2
    /\ events = <<"singer_catalog", "discover">>
    /\ pc = "prepare"
    /\ client_catalog = first_catalog
    /\ Len(client_catalog) = 7


\* The step is a get_records call.
IsReadStep == events' = Append(events, "read")

\* C11: the stored response is created by the one POST and not changed
\* afterwards: it changes only where prepare assigns the decoded body, and
\* once set it stays as it is; a get_records call leaves the stored
\* response, the catalog, the config, the session and the requests sent as
\* they were, so every read, in any order, after any other reads, returns
\* for its stream name what the response held under it when prepare returned.
C11_ReadsLeaveResponse ==
    [][ /\ data' # data =>
             /\ pc = "json"
             /\ data = NoneObj
             /\ data' = [kind |-> IF response.body.kind = "object" THEN "dict" ELSE "list",
                         value |-> response.body.value]
        /\ IsReadStep =>
             /\ data' = data
             /\ client_catalog' = client_catalog
             /\ input_catalog' = input_catalog
             /\ config' = config
             /\ session_auth' = session_auth
             /\ sent' = sent
             /\ response' = response
             /\ data = NoneObj => last_read'.kind = "TypeError"
             /\ (data # NoneObj /\ response.body.kind = "object") =>
                  IF last_read'.name \in DOMAIN response.body.value
                  THEN /\ last_read'.kind = "value"
                       /\ last_read'.value = response.body.value[last_read'.name]
                  ELSE last_read'.kind = "KeyError"
      ]_vars

C11_Witness ==
    /\ prepare_status = "ok"
    /\ events = <<"prepare_session", "post", "stored", "prepared", "read", "read">>
    /\ last_read = [name |-> "projects", kind |-> "value", value |-> <<Record1, Record2>>]
    /\ data = [kind |-> "dict", value |-> response.body.value]
    /\ "labels" \in DOMAIN data.value


\* C12: every request that has been sent carries the header
\* Authorization: Bearer <token> with the token of the config, which is the
\* token of the auth the session holds since prepare_session; no request is
\* sent before prepare_session, none with another token or without the
\* header, and the config is the one the process started with.
C12_BearerOnEveryRequest ==
    /\ sent # <<>> =>
         /\ "token" \in DOMAIN config
         /\ Happened("prepare_session")
         /\ session_auth.kind = "BearerAuth"
         /\ session_auth.token = config["token"]
    /\ \A i \in DOMAIN sent :
         /\ sent[i].method = "POST"
         /\ sent[i].url = SyncUrl
         /\ sent[i].headers.Authorization = <<"Bearer", session_auth.token>>
         /\ sent[i].headers.Authorization[2] \in Tokens
    /\ (Happened("prepare_session") /\ ~Happened("post")) =>
         /\ sent = <<>>
         /\ session_auth = [kind |-> "BearerAuth", token |-> config["token"]]

C12_Witness ==
    /\ pc = "done"
    /\ "token" \in DOMAIN config
    /\ config["token"] = "other"
    /\ Len(sent) = 1
    /\ sent[1].headers.Authorization = <<"Bearer", "other">>
    /\ response.status = 200

=============================================================================
